---- MODULE Spec2Model ----
(***************************************************************************)
(* AnnotateMD: the incremental pattern matcher (Pattern and its            *)
(* combinators) and the tree walk of Annotator.apply, as a state machine.  *)
(*                                                                         *)
(* A tree is given by its nodes in document (pre-) order: node i has the   *)
(* tag tagName[i], the class attribute className[i] and the parent         *)
(* parentNode[i], 0 being the root element handed to apply().  Pattern     *)
(* objects live in `table` (their frozen configuration) and `state`        *)
(* (their mutable fields); PatternMatch objects live in `heap` and are     *)
(* referred to by their index, so that identity (the Set of matches) is    *)
(* modelled faithfully.                                                    *)
(***************************************************************************)
EXTENDS Integers, Sequences, FiniteSets, TLC

VARIABLES
    annotator,    \* the Annotator constructed: its place in Annotators
    state,        \* the Pattern objects' mutable fields, by object id
    heap,         \* the PatternMatch objects ever allocated, by identity
    root,         \* the tree handed to apply()
    max_depth,    \* apply()'s max_depth argument
    matches,      \* apply()'s Set<PatternMatch>, in insertion order
    pc,           \* where apply() stands
    node,         \* _apply_rec: the node being matched
    j,            \* _match_node: the loop index
    resp,         \* _match_node: its local resp
    break_flag,   \* _match_node: its local break_flag
    match_iter,   \* apply(): how far the iterator over matches has come
    log,          \* history: every pat.matches() call _match_node made, with
                  \* the objects that answered Matching in it
    transformed   \* history: the PatternMatch objects handed to a transform, each
                  \* with the number of matches() calls made before it

vars == << annotator, state, heap, root, max_depth, matches, pc, node, j,
           resp, break_flag, match_iter, log, transformed >>

(***************************************************************************)
(* Bounds of the model.                                                    *)
(***************************************************************************)
MaxNodes == 3

(***************************************************************************)
(* PatternMatchResponse                                                    *)
(***************************************************************************)
Matching == "Matching"
NonMatching == "NonMatching"
Incomplete == "Incomplete"
Completed == "Completed"
Break == "Break"
Unapplied == "Unapplied"
\* a call on undefined or null: the exception that aborts apply()
TypeError == "TypeError"

DefaultDepth == 0
DefaultAbsDepth == -1
DefaultApplications == -1

\* null, for a Pattern's match field
null == 0
\* the value of an argument that was not passed (pattern.matches(el))
undefined == -2

(***************************************************************************)
(* Trees                                                                   *)
(***************************************************************************)
RECURSIVE Ancestors(_, _)
\* n and the nodes above it, the root element 0 excluded
Ancestors(parentNode, n) ==
    IF n = 0 THEN {} ELSE {n} \cup Ancestors(parentNode, parentNode[n])

\* document order: a node follows its parent, and the next node is a child of
\* the one before it, or a sibling of it or of one of its ancestors
IsDocumentOrder(parentNode) ==
    \A i \in DOMAIN parentNode :
        /\ parentNode[i] < i
        /\ i > 1 => parentNode[i] \in Ancestors(parentNode, i - 1) \cup {0}

NodeTags == {"H2", "P", "PRE"}

\* elements without a class attribute: className is the empty string
NoClass(n) == [ i \in 1..n |-> "" ]

TreesOfSize(n) ==
    { [tagName |-> t, className |-> NoClass(n), parentNode |-> p] :
        t \in [1..n -> NodeTags],
        p \in { q \in [1..n -> 0..n] : IsDocumentOrder(q) } }

\* the flat sibling list h2, p, p, h3, p of the section example
SectionList ==
    [tagName |-> << "H2", "P", "P", "H3", "P" >>, className |-> NoClass(5),
     parentNode |-> << 0, 0, 0, 0, 0 >>]

\* siblings of an XML document, where tagName keeps the case of the source
XmlList == [tagName |-> << "p", "P" >>, className |-> NoClass(2), parentNode |-> << 0, 0 >>]

\* siblings with class attributes
ClassList ==
    [tagName |-> << "P", "PRE", "P" >>, className |-> << "note", "note warn", "warn" >>,
     parentNode |-> << 0, 0, 0 >>]

\* a p inside a pre, then a p with a p inside
NestedList ==
    [tagName |-> << "PRE", "P", "P", "P" >>, className |-> NoClass(4),
     parentNode |-> << 0, 1, 0, 3 >>]

Trees ==
    UNION { TreesOfSize(n) : n \in 0..MaxNodes }
        \cup { SectionList, XmlList, ClassList, NestedList }

\* apply()'s max_depth argument: the default, and two supplied values
MaxDepths == {-1, 0, 1}

Nodes == DOMAIN root.tagName

RECURSIVE DepthIn(_, _)
DepthIn(parentNode, n) ==
    IF parentNode[n] = 0 THEN 0 ELSE 1 + DepthIn(parentNode, parentNode[n])

\* the cur_depth _apply_rec passes to _match_node for node n
Depth(n) == DepthIn(root.parentNode, n)

Descendants(n) == { m \in Nodes : m # n /\ n \in Ancestors(root.parentNode, m) }

(***************************************************************************)
(* Pattern objects.  A constructor yields the object followed by the       *)
(* objects it wraps; `kids` holds each wrapped object's offset from the    *)
(* wrapping one, so that the objects of an Annotator form one table.       *)
(***************************************************************************)
\* the defaults of Pattern's constructor; transform says whether one is given
Options ==
    [ compounds |-> TRUE, terminal |-> FALSE, depth |-> DefaultDepth,
      absolute_depth |-> DefaultAbsDepth, applications |-> DefaultApplications,
      transform |-> FALSE ]

RECURSIVE Flatten(_)
Flatten(frags) == IF frags = << >> THEN << >> ELSE Head(frags) \o Flatten(Tail(frags))

KidOffsets(frags) == [ i \in DOMAIN frags |-> 1 + Len(Flatten(SubSeq(frags, 1, i - 1))) ]

\* Pattern's constructor: the fields every pattern has
Pattern(kind, o, manage_match) ==
    [ kind |-> kind, compounds |-> o.compounds, terminal |-> o.terminal,
      depth |-> o.depth, absolute_depth |-> o.absolute_depth,
      applications |-> o.applications, transform |-> o.transform,
      manage_match |-> manage_match, handling |-> TRUE,
      field_name |-> "", field_options |-> << >>, exact |-> FALSE, all |-> FALSE,
      kids |-> << >>, repeats |-> << >>, must_match |-> null, test |-> {} ]

\* pat.disable_handling(), called by the constructor of the wrapping pattern
disable_handling(frag) == [ frag EXCEPT ![1].handling = FALSE ]

SimplePattern(field_options, field_name, exact, all, o) ==
    << [ Pattern("Simple", o, TRUE) EXCEPT
            !.field_name = field_name, !.field_options = field_options,
            !.exact = exact, !.all = all ] >>

UpperCase ==
    [ h1 |-> "H1", h2 |-> "H2", h3 |-> "H3", h4 |-> "H4", h5 |-> "H5", p |-> "P",
      a |-> "A", span |-> "SPAN", ul |-> "UL", pre |-> "PRE" ]

toUpperCase(s) == IF s \in DOMAIN UpperCase THEN UpperCase[s] ELSE s

\* exact = true and all = false are TagPattern's defaults
TagPattern(tags, o) ==
    SimplePattern([ i \in DOMAIN tags |-> toUpperCase(tags[i]) ], "tagName", TRUE, FALSE, o)

\* exact = false and all = true are ClassPattern's defaults
ClassPattern(classes, o) == SimplePattern(classes, "className", FALSE, TRUE, o)

\* repeats === null: one [1] per pattern
DefaultRepeats(pats) == [ i \in DOMAIN pats |-> << 1 >> ]

SequencePattern(pats, repeats, o) ==
    << [ Pattern("Sequence", o, TRUE) EXCEPT
            !.kids = KidOffsets(pats), !.repeats = repeats ] >>
    \o Flatten([ i \in DOMAIN pats |-> disable_handling(pats[i]) ])

\* IgnoredPattern's own default is terminal = true
IgnoredOptions == [ Options EXCEPT !.terminal = TRUE ]

IgnoredPattern(pattern, o) ==
    << [ Pattern("Ignored", o, TRUE) EXCEPT !.kids = << 1 >> ] >>
    \o disable_handling(pattern)

\* ExceptPattern passes neither depth nor absolute_depth on, and manage_match: false
ExceptPattern(pattern, o) ==
    << [ Pattern("Except",
                 [ o EXCEPT !.depth = DefaultDepth, !.absolute_depth = DefaultAbsDepth ],
                 FALSE) EXCEPT !.kids = << 1 >> ] >>
    \o disable_handling(pattern)

\* AllPattern passes its options on and disables the handling of its children
AllPattern(pats, o) ==
    << [ Pattern("All", o, TRUE) EXCEPT !.kids = KidOffsets(pats) ] >>
    \o Flatten([ i \in DOMAIN pats |-> disable_handling(pats[i]) ])

\* AnyPattern passes neither depth nor absolute_depth on, and manage_match:
\* false; its children keep their handling, and it makes itself a PatternMatch
\* that lists theirs
AnyPattern(pats, o) ==
    << [ Pattern("Any",
                 [ o EXCEPT !.depth = DefaultDepth, !.absolute_depth = DefaultAbsDepth ],
                 FALSE) EXCEPT !.kids = KidOffsets(pats) ] >>
    \o Flatten(pats)

\* PatternTest's constructor argument `pattern`: a Pattern instance, or an array
\* whose element 1 is one
Instance(pattern) == [ instanceofPattern |-> TRUE, pattern |-> pattern ]
ArrayOf(pattern) == [ instanceofPattern |-> FALSE, pattern |-> pattern ]

\* PatternTest passes neither depth nor absolute_depth on, and manage_match:
\* false; must_match is null for a Pattern instance and pattern[1] otherwise.
\* test is the set of tag names the predicate is true of
PatternTest(pattern, test, o) ==
    << [ Pattern("Test",
                 [ o EXCEPT !.depth = DefaultDepth, !.absolute_depth = DefaultAbsDepth ],
                 FALSE) EXCEPT
            !.kids = << 1 >>, !.test = test,
            !.must_match = IF pattern.instanceofPattern THEN null ELSE 1 ] >>
    \o (IF pattern.instanceofPattern THEN pattern.pattern
        ELSE disable_handling(pattern.pattern))

\* new Annotator(patterns)
Annotator(pats) == [ table |-> Flatten(pats), patterns |-> KidOffsets(pats) ]

\* whether a constructed pattern holds a PatternMatch of its own
OwnsMatch(tbl, p) == (tbl[p].manage_match \/ tbl[p].kind = "Any") /\ tbl[p].handling

\* the PatternMatch a constructed pattern holds, null when it holds none
InitialMatch(tbl, p) ==
    IF OwnsMatch(tbl, p) THEN Cardinality({ q \in 1..p : OwnsMatch(tbl, q) }) ELSE null

\* an element of PatternMatch.nodes that is the PatternMatch m, not a tree node:
\* tree nodes are positive, a PatternMatch is listed as minus its identity,
\* and null as itself
Ref(m) == 0 - m

\* the nodes a PatternMatch is constructed with: none, or for an Any pattern
\* its children's matches
InitialNodes(tbl, p) ==
    IF tbl[p].kind = "Any"
    THEN [ i \in DOMAIN tbl[p].kids |-> Ref(InitialMatch(tbl, p + tbl[p].kids[i])) ]
    ELSE << >>

\* the PatternMatch objects alive after construction, in construction order
InitialHeap(tbl) ==
    LET owners == SelectSeq([ p \in DOMAIN tbl |-> p ], LAMBDA p : OwnsMatch(tbl, p))
    IN  [ i \in DOMAIN owners |->
            [ parent |-> owners[i], nodes |-> InitialNodes(tbl, owners[i]) ] ]

\* the mutable fields after construction
InitialState(tbl) ==
    [ p \in DOMAIN tbl |->
        [ match |-> InitialMatch(tbl, p),
          _cur_depth |-> -1, _applied |-> 0, cur |-> 0, cur_counts |-> 0 ] ]

(***************************************************************************)
(* The annotators the model is run on.                                     *)
(***************************************************************************)
WithTransform == [ Options EXCEPT !.transform = TRUE ]

Headings == << "h1", "h2", "h3", "h4", "h5" >>

\* a heading and what follows it up to the next heading
Section(o) ==
    SequencePattern(<< TagPattern(Headings, Options),
                       ExceptPattern(TagPattern(Headings, Options), Options) >>,
                    << << 1, 1 >>, << 1, -1 >> >>, o)

\* two or more p, a or span in a row
Run(o) ==
    SequencePattern(<< TagPattern(<< "p", "a", "span" >>, Options) >>,
                    << << 2, -1 >> >>, o)

\* a heading and one p, with the default repeats
Lead(o) ==
    LET pats == << TagPattern(Headings, Options), TagPattern(<< "p" >>, Options) >>
    IN  SequencePattern(pats, DefaultRepeats(pats), o)

\* a heading, any number of p, then a pre
Block(o) ==
    SequencePattern(<< TagPattern(Headings, Options), TagPattern(<< "p" >>, Options),
                       TagPattern(<< "pre" >>, Options) >>,
                    << << 1, 1 >>, << 0, -1 >>, << 1, 1 >> >>, o)

\* one or two p
UpToTwo(o) ==
    SequencePattern(<< TagPattern(<< "p" >>, Options) >>, << << 1, 2 >> >>, o)

\* an optional heading, then any number of p
Optional(o) ==
    SequencePattern(<< TagPattern(Headings, Options), TagPattern(<< "p" >>, Options) >>,
                    << << 0, 1 >>, << 0, -1 >> >>, o)

\* a heading and a p, with repeat bounds for the heading only
ShortRepeats(o) ==
    SequencePattern(<< TagPattern(Headings, Options), TagPattern(<< "p" >>, Options) >>,
                    << << 1, 1 >> >>, o)

Fence == TagPattern(<< "ul", "pre" >>, [ Options EXCEPT !.terminal = TRUE ])

Para == TagPattern(<< "p" >>, WithTransform)

\* the annotator of the test page
TestAnnotator == Annotator(<< Section(WithTransform), Fence, Para, Para, Run(WithTransform) >>)

\* the section pattern alone
SectionAnnotator == Annotator(<< Section(WithTransform) >>)

Annotators ==
    << TestAnnotator,
      SectionAnnotator,
      Annotator(<< Run(WithTransform) >>),
      Annotator(<< Fence, Para >>),
      Annotator(<< Section([ WithTransform EXCEPT !.terminal = TRUE ]), Para >>),
      Annotator(<< Para, Lead([ WithTransform EXCEPT !.compounds = FALSE ]), Para >>),
      Annotator(<< Para, Section([ WithTransform EXCEPT !.compounds = FALSE ]), Para >>),
      Annotator(<< TagPattern(<< "p" >>, [ WithTransform EXCEPT !.compounds = FALSE ]),
                   Para >>),
      Annotator(<< IgnoredPattern(TagPattern(<< "pre" >>, Options), IgnoredOptions), Para >>),
      Annotator(<< Fence, IgnoredPattern(TagPattern(<< "pre" >>, Options), IgnoredOptions),
                   Para >>),
      Annotator(<< TagPattern(<< "p" >>, [ WithTransform EXCEPT !.applications = 1 ]) >>),
      Annotator(<< Section([ WithTransform EXCEPT !.applications = 1 ]) >>),
      Annotator(<< Lead([ WithTransform EXCEPT !.applications = 1 ]) >>),
      Annotator(<< TagPattern(<< "p" >>, [ WithTransform EXCEPT !.absolute_depth = 0 ]),
                   Section([ WithTransform EXCEPT !.absolute_depth = 1 ]) >>),
      Annotator(<< Section([ WithTransform EXCEPT !.depth = -1 ]) >>),
      Annotator(<< Section(WithTransform), Para, Para, Run(WithTransform) >>),
      Annotator(<< ExceptPattern(TagPattern(Headings, Options), WithTransform), Para >>),
      Annotator(<< PatternTest(Instance(TagPattern(<< "p", "h2" >>, Options)), {"P"},
                               WithTransform) >>),
      Annotator(<< SequencePattern(
                     << PatternTest(ArrayOf(TagPattern(<< "p", "h2" >>, Options)), {"P"},
                                    Options) >>,
                     << << 1, -1 >> >>, WithTransform) >>),
      Annotator(<< Block(WithTransform) >>),
      Annotator(<< UpToTwo(WithTransform) >>),
      Annotator(<< AllPattern(<< TagPattern(<< "p", "h2" >>, Options),
                                 TagPattern(<< "p", "pre" >>, Options),
                                 TagPattern(<< "p", "h2", "pre" >>, Options) >>,
                              WithTransform) >>),
      Annotator(<< AnyPattern(<< TagPattern(<< "h2" >>, Options), Run(Options),
                                 TagPattern(<< "p", "pre" >>, Options) >>,
                              WithTransform) >>),
      Annotator(<< Run(WithTransform), IgnoredPattern(Run(Options), IgnoredOptions) >>),
      Annotator(<< IgnoredPattern(TagPattern(<< "p" >>, [ Options EXCEPT !.applications = 1 ]),
                                  IgnoredOptions) >>),
      Annotator(<< IgnoredPattern(
                     IgnoredPattern(TagPattern(<< "pre" >>, Options), IgnoredOptions),
                     IgnoredOptions) >>),
      Annotator(<< ClassPattern(<< "note", "warn" >>, WithTransform),
                   ClassPattern(<< >>, WithTransform),
                   SimplePattern(<< >>, "tagName", FALSE, FALSE, WithTransform),
                   SimplePattern(<< "PR", "H2" >>, "tagName", FALSE, FALSE, WithTransform),
                   SimplePattern(<< "note", "warn" >>, "className", TRUE, FALSE,
                                 WithTransform) >>),
      Annotator(<< Optional(WithTransform) >>),
      Annotator(<< ShortRepeats(WithTransform), Para >>),
      Annotator(<< IgnoredPattern(TagPattern(<< "pre" >>,
                                             [ Options EXCEPT !.absolute_depth = 0 ]),
                                  IgnoredOptions),
                   IgnoredPattern(TagPattern(<< "p" >>, Options),
                                  [ IgnoredOptions EXCEPT !.absolute_depth = 0 ]) >>) >>

\* the Pattern objects of the annotator: their configuration fields, by object id
table == Annotators[annotator].table

\* Annotator.patterns: the ids of the top-level patterns
patterns == Annotators[annotator].patterns


(***************************************************************************)
(* Pattern.matches and the matchers.  S is the object graph a call works   *)
(* on, [state, heap]; a call answers [resp, state, heap].                  *)
(***************************************************************************)
\* a < b in JavaScript: false when either side is undefined (NaN)
Less(a, b) == a # undefined /\ b # undefined /\ a < b

\* short-circuit cases that take an absolute_depth of 0 for no ceiling
ShortCircuits_ZeroUnset(pat, s, depth) ==
    \/ pat.absolute_depth > 0 /\ Less(pat.absolute_depth, depth)
    \/ pat.applications >= 0 /\ pat.applications <= s._applied
    \/ /\ Less(-1, s._cur_depth)
       /\ pat.depth >= 0
       /\ depth # undefined
       /\ depth - s._cur_depth > pat.depth

\* the three short-circuit cases of Pattern.matches
ShortCircuits(pat, s, depth) ==
    \/ pat.absolute_depth >= 0 /\ Less(pat.absolute_depth, depth)
    \/ pat.applications >= 0 /\ pat.applications <= s._applied
    \/ /\ Less(-1, s._cur_depth)
       /\ pat.depth >= 0
       /\ depth # undefined
       /\ depth - s._cur_depth > pat.depth

\* a push that puts the node in front (unshift)
push_Front(match, n, hp) ==
    IF match # null THEN [ hp EXCEPT ![match].nodes = << n >> \o @ ] ELSE hp

\* PatternMatch.push, through Pattern.push: nothing when the match is null
push(match, n, hp) ==
    IF match # null THEN [ hp EXCEPT ![match].nodes = Append(@, n) ] ELSE hp

\* the characters of the strings that are compared
Chars ==
    [ s \in { "" } |-> << >> ] @@
    [ H1 |-> << "H", "1" >>, H2 |-> << "H", "2" >>, H3 |-> << "H", "3" >>,
      H4 |-> << "H", "4" >>, H5 |-> << "H", "5" >>, P |-> << "P" >>, p |-> << "p" >>,
      A |-> << "A" >>, SPAN |-> << "S", "P", "A", "N" >>, UL |-> << "U", "L" >>,
      PRE |-> << "P", "R", "E" >>, PR |-> << "P", "R" >>,
      note |-> << "n", "o", "t", "e" >>, warn |-> << "w", "a", "r", "n" >> ] @@
    [ s \in { "note warn" } |-> << "n", "o", "t", "e", " ", "w", "a", "r", "n" >> ]

\* String.prototype.indexOf: the first place c occurs at in cname, else -1
indexOf(cname, c) ==
    LET at == { i \in 0..(Len(Chars[cname]) - Len(Chars[c])) :
                  SubSeq(Chars[cname], i + 1, i + Len(Chars[c])) = Chars[c] }
    IN  IF at = {} THEN -1 ELSE CHOOSE i \in at : \A k \in at : i <= k

\* a comparison that is equality whatever exact says
Compares_Equal(cname, c, exact) == cname = c

\* the comparison of one option with the field's value
Compares(cname, c, exact) == IF exact THEN cname = c ELSE indexOf(cname, c) # -1

match_field(cname, field_options, exact, all) ==
    IF ~ all
    THEN IF \E i \in DOMAIN field_options : Compares(cname, field_options[i], exact)
         THEN Matching ELSE NonMatching
    ELSE IF \E i \in DOMAIN field_options : ~ Compares(cname, field_options[i], exact)
         THEN NonMatching ELSE Matching

\* an inc_pattern that carries the repeat counter over to the next child
inc_pattern_KeepsCount(p, st) == [ st EXCEPT ![p].cur = @ + 1 ]

\* SequencePattern.inc_pattern
inc_pattern(p, st) == [ st EXCEPT ![p].cur = @ + 1, ![p].cur_counts = 0 ]

\* an exhausted() that is true one child early
exhausted_Early(p, st) == st[p].cur + 1 >= Len(table[p].kids)

\* SequencePattern.exhausted
exhausted(p, st) == st[p].cur >= Len(table[p].kids)

\* a negation that turns Matching around and lets NonMatching through
ExceptResponse_OneWay(r) == IF r = Matching \/ r = Completed THEN NonMatching ELSE r

\* ExceptPattern.match_execpt: what it makes of the wrapped pattern's answer
ExceptResponse(r) ==
    IF r = Matching \/ r = Completed THEN NonMatching
    ELSE IF r = NonMatching THEN Matching
    ELSE r

\* a match_ignore that hands the node's depth on to the wrapped pattern
IgnoredDepth_Passed(depth) == depth

\* the depth match_ignore gives the wrapped pattern: pattern.matches(el)
IgnoredDepth(depth) == undefined

\* an Ignored that upgrades Incomplete and Break only
IgnoreResponse_NotIncomplete(r) == IF r \in { Matching, Break } THEN Break ELSE r

IgnoreResponse_NotMatching(r) == IF r \in { Incomplete, Break } THEN Break ELSE r

\* IgnoredPattern.match_ignore: what it makes of the wrapped pattern's answer
IgnoreResponse(r) == IF r \in { Incomplete, Break, Matching } THEN Break ELSE r

\* PatternTest.match_test: what it makes of the wrapped pattern's answer
TestResponse(r, subresp) ==
    IF (r = Matching \/ r = Completed) /\ ~ subresp THEN NonMatching ELSE r

\* side effects that count an Incomplete as an application too
Matched_CountsIncomplete(p, n, depth, R) ==
    IF R.resp = Matching \/ R.resp = Incomplete
    THEN LET st == [ R.state EXCEPT
                        ![p]._cur_depth = IF @ = -1 THEN depth ELSE @,
                        ![p]._applied = @ + 1 ]
         IN  [ resp |-> R.resp, state |-> st, heap |-> push(st[p].match, n, R.heap) ]
    ELSE R

\* side effects that append the node on Completed as well
Matched_PushesCompleted(p, n, depth, R) ==
    IF R.resp \in { Matching, Incomplete, Completed }
    THEN LET st == [ R.state EXCEPT
                        ![p]._cur_depth = IF @ = -1 THEN depth ELSE @,
                        ![p]._applied = IF R.resp = Matching THEN @ + 1 ELSE @ ]
         IN  [ resp |-> R.resp, state |-> st, heap |-> push(st[p].match, n, R.heap) ]
    ELSE R

\* the side effects of Pattern.matches on this pattern once the matcher answered
Matched(p, n, depth, R) ==
    IF R.resp = Matching \/ R.resp = Incomplete
    THEN LET st == [ R.state EXCEPT
                        ![p]._cur_depth = IF @ = -1 THEN depth ELSE @,
                        ![p]._applied = IF R.resp = Matching THEN @ + 1 ELSE @ ]
         IN  [ resp |-> R.resp, state |-> st, heap |-> push(st[p].match, n, R.heap) ]
    ELSE R

RECURSIVE Pattern_matches(_, _, _, _)
RECURSIVE match_seq(_, _, _, _)
RECURSIVE match_all(_, _, _, _, _)
RECURSIVE match_any(_, _, _, _, _)
RECURSIVE all_next(_, _, _, _, _)
RECURSIVE any_next(_, _, _, _, _)
RECURSIVE seq_next(_, _, _, _)

\* this.matcher(node, this.match, depth), by the class of the pattern
matcher(p, n, depth, S) ==
    LET pat == table[p] IN
    CASE pat.kind = "Simple" ->
            [ resp |-> match_field(root[pat.field_name][n], pat.field_options,
                                   pat.exact, pat.all),
              state |-> S.state, heap |-> S.heap ]
      [] pat.kind = "Sequence" -> match_seq(p, n, depth, S)
      [] pat.kind = "Except" ->
            LET R == Pattern_matches(p + pat.kids[1], n, depth, S)
            IN  [ R EXCEPT !.resp = ExceptResponse(@) ]
      [] pat.kind = "Ignored" ->
            LET R == Pattern_matches(p + pat.kids[1], n, IgnoredDepth(depth), S)
            IN  [ R EXCEPT !.resp = IgnoreResponse(@) ]
      [] pat.kind = "All" -> match_all(p, 1, n, depth, S)
      [] pat.kind = "Any" -> match_any(p, 1, n, depth, S)
      [] pat.kind = "Test" ->
            IF pat.must_match = null
            THEN \* must.matches of null
                 [ resp |-> TypeError, state |-> S.state, heap |-> S.heap ]
            ELSE LET R == Pattern_matches(p + pat.must_match, n, depth, S)
                 IN  [ R EXCEPT !.resp = TestResponse(@, root.tagName[n] \in pat.test) ]

\* a loop that goes on to the next child unless this one answered NonMatching
AllBreaks_OnNonMatching(r) == r = NonMatching

\* AllPattern.match_all: whether the loop over the children ends with this answer
AllBreaks(r) == r # Matching

\* AllPattern.match_all, from the i-th child on
match_all(p, i, n, depth, S) ==
    IF i > Len(table[p].kids)
    THEN [ resp |-> Matching, state |-> S.state, heap |-> S.heap ]
    ELSE all_next(p, i, n, depth, Pattern_matches(p + table[p].kids[i], n, depth, S))

\* the loop body of match_all after the i-th child answered R
all_next(p, i, n, depth, R) ==
    IF AllBreaks(R.resp) \/ i = Len(table[p].kids) THEN R
    ELSE match_all(p, i + 1, n, depth, [ state |-> R.state, heap |-> R.heap ])

\* a loop that goes on to the next child unless this one answered Matching
AnyBreaks_OnMatching(r) == r = Matching

\* AnyPattern.match_any: whether the loop over the children ends with this answer
AnyBreaks(r) == r # NonMatching /\ r # Unapplied

\* AnyPattern.match_any, from the i-th child on
match_any(p, i, n, depth, S) ==
    IF i > Len(table[p].kids)
    THEN [ resp |-> Matching, state |-> S.state, heap |-> S.heap ]
    ELSE any_next(p, i, n, depth, Pattern_matches(p + table[p].kids[i], n, depth, S))

\* the loop body of match_any after the i-th child answered R
any_next(p, i, n, depth, R) ==
    IF AnyBreaks(R.resp) \/ i = Len(table[p].kids) THEN R
    ELSE match_any(p, i + 1, n, depth, [ state |-> R.state, heap |-> R.heap ])

\* a matches() that forgets its anchor depth when it declines
Pattern_matches_ForgetsAnchor(p, n, depth, S) ==
    IF ShortCircuits(table[p], S.state[p], depth)
    THEN [ resp |-> Unapplied, state |-> [ S.state EXCEPT ![p]._cur_depth = -1 ],
           heap |-> S.heap ]
    ELSE Matched(p, n, depth, matcher(p, n, depth, S))

Pattern_matches(p, n, depth, S) ==
    IF ShortCircuits(table[p], S.state[p], depth)
    THEN [ resp |-> Unapplied, state |-> S.state, heap |-> S.heap ]
    ELSE Matched(p, n, depth, matcher(p, n, depth, S))

match_seq(p, n, depth, S) ==
    LET pat == table[p]
        cur == S.state[p].cur
    IN
    IF cur >= Len(pat.kids) \/ cur >= Len(pat.repeats)
    THEN \* this.patterns[this.cur] or this.repeats[this.cur] is undefined
         [ resp |-> TypeError, state |-> S.state, heap |-> S.heap ]
    ELSE seq_next(p, n, depth, Pattern_matches(p + pat.kids[cur + 1], n, depth, S))

\* match_seq after the current child answered R
seq_next(p, n, depth, R) ==
    LET pat == table[p]
        cur == R.state[p].cur
        min_count == pat.repeats[cur + 1][1]
        max_count == pat.repeats[cur + 1][Len(pat.repeats[cur + 1])]
    IN
    IF R.resp = NonMatching /\ R.state[p].cur_counts >= min_count
    THEN LET st == inc_pattern(p, R.state) IN
         IF exhausted(p, st)
         THEN [ resp |-> Completed, state |-> st, heap |-> R.heap ]
         ELSE match_seq(p, n, depth, [ state |-> st, heap |-> R.heap ])
    ELSE IF R.resp = Matching \/ R.resp = Completed
    THEN LET st1 == [ R.state EXCEPT ![p].cur_counts = @ + 1 ]
             st2 == IF max_count > 0 /\ st1[p].cur_counts >= max_count
                    THEN inc_pattern(p, st1) ELSE st1
         IN  [ resp |-> IF exhausted(p, st2) THEN Matching ELSE Incomplete,
               state |-> st2, heap |-> R.heap ]
    ELSE R

\* a reset that empties the PatternMatch it holds in place of making a new one
Pattern_reset_InPlace(p, S) ==
    IF S.state[p].match # null
    THEN [ state |-> [ S.state EXCEPT ![p]._cur_depth = -1 ],
           heap |-> [ S.heap EXCEPT ![S.state[p].match].nodes = << >> ] ]
    ELSE [ state |-> [ S.state EXCEPT ![p]._cur_depth = -1 ], heap |-> S.heap ]

\* Pattern.reset: a fresh PatternMatch unless the pattern holds none
Pattern_reset(p, S) ==
    IF S.state[p].match # null
    THEN [ state |-> [ S.state EXCEPT ![p]._cur_depth = -1,
                                      ![p].match = Len(S.heap) + 1 ],
           heap |-> Append(S.heap, [ parent |-> p, nodes |-> << >> ]) ]
    ELSE [ state |-> [ S.state EXCEPT ![p]._cur_depth = -1 ], heap |-> S.heap ]

\* a reset that leaves the cursor and the repeat counter where they are
SequencePattern_reset_KeepsCursor(p, S) == Pattern_reset(p, S)

\* SequencePattern.reset
SequencePattern_reset(p, S) ==
    Pattern_reset(p, [ state |-> [ S.state EXCEPT ![p].cur = 0, ![p].cur_counts = 0 ],
                       heap |-> S.heap ])

RECURSIVE reset(_, _)
RECURSIVE ResetKids(_, _, _)
\* AnyPattern.reset: pat.reset() for the children from the i-th on
ResetKids(p, i, S) ==
    IF i > Len(table[p].kids) THEN S
    ELSE ResetKids(p, i + 1, reset(p + table[p].kids[i], S))

\* AnyPattern.reset after the loop: a new PatternMatch that lists the
\* children's matches
Rewrapped(p, G) ==
    [ state |-> [ G.state EXCEPT ![p].match = Len(G.heap) + 1 ],
      heap |-> Append(G.heap,
                      [ parent |-> p,
                        nodes |-> [ i \in DOMAIN table[p].kids |->
                                      Ref(G.state[p + table[p].kids[i]].match) ] ]) ]

\* AnyPattern.reset: the children are reset, then the wrapper is rebuilt
AnyPattern_reset(p, S) == Rewrapped(p, ResetKids(p, 1, S))

\* pat.reset(), by the class of the pattern
reset(p, S) ==
    CASE table[p].kind = "Sequence" -> SequencePattern_reset(p, S)
      [] table[p].kind = "Any" -> AnyPattern_reset(p, S)
      [] OTHER -> Pattern_reset(p, S)

(***************************************************************************)
(* Annotator                                                               *)
(***************************************************************************)
\* a list in place of the Set: an element already there is added again
SetAdd_Append(ms, m) == Append(ms, m)

\* Set.add: an element already there keeps its place
SetAdd(ms, m) == IF \E i \in DOMAIN ms : ms[i] = m THEN ms ELSE Append(ms, m)

\* Set.delete
SetDelete(ms, m) == SelectSeq(ms, LAMBDA x : x # m)

IndexOf(ms, m) == CHOOSE i \in DOMAIN ms : ms[i] = m

RECURSIVE ResetParents(_, _)
\* kill_match.parent.reset() for each of the matches killed
ResetParents(kills, S) ==
    IF kills = << >> THEN S
    ELSE ResetParents(Tail(kills), reset(S.heap[Head(kills)].parent, S))

\* a kill loop that starts at the pattern's own match
Killed_FromOwn(ms, match) == SubSeq(ms, IndexOf(ms, match), Len(ms))

\* the matches a non-compounding pattern kills: those after its own
Killed(ms, match) == SubSeq(ms, IndexOf(ms, match) + 1, Len(ms))

\* Annotator._handle_match; S is the object graph after pat.matches()
_handle_match(core_response, pat, ms, match, S) ==
    LET G == [ state |-> S.state, heap |-> S.heap ]
        same == [ resp |-> core_response, break_flag |-> FALSE, matches |-> ms,
                  state |-> S.state, heap |-> S.heap ]
    IN
    CASE core_response = NonMatching ->
            LET G1 == reset(pat, G)
            IN  [ same EXCEPT !.matches = SetDelete(ms, match),
                              !.state = G1.state, !.heap = G1.heap ]
      [] core_response = Incomplete ->
            [ same EXCEPT !.matches = SetAdd(ms, match) ]
      [] core_response \in { Completed, Matching } ->
            LET ms1 == SetAdd(ms, match)
                kills == IF table[pat].compounds THEN << >> ELSE Killed(ms1, match)
            IN
            IF \E i \in DOMAIN kills : kills[i] = null
            THEN \* kill_match.parent of null
                 [ same EXCEPT !.resp = TypeError ]
            ELSE
            LET G1 == ResetParents(kills, G)
                G2 == reset(pat, G1)
            IN  [ resp |-> IF table[pat].terminal THEN Break ELSE core_response,
                  break_flag |-> ~ table[pat].compounds \/ table[pat].terminal,
                  matches |-> SubSeq(ms1, 1, Len(ms1) - Len(kills)),
                  state |-> G2.state, heap |-> G2.heap ]
      [] core_response = Break ->
            [ same EXCEPT !.break_flag = TRUE ]
      [] OTHER -> same

(***************************************************************************)
(* The state machine: construction, then one apply(root, max_depth).       *)
(***************************************************************************)
Init ==
    /\ annotator \in DOMAIN Annotators
    /\ state = InitialState(table)
    /\ heap = InitialHeap(table)
    /\ root = [ tagName |-> << >>, className |-> << >>, parentNode |-> << >> ]
    /\ max_depth = -1
    /\ matches = << >>
    /\ pc = "constructed"
    /\ node = 0
    /\ j = 0
    /\ resp = Matching
    /\ break_flag = FALSE
    /\ match_iter = 0
    /\ log = << >>
    /\ transformed = << >>

\* _apply_rec calls _match_node(n, ...): the locals before its loop
EnterMatchNode(n) ==
    /\ node' = n
    /\ j' = 1
    /\ resp' = Matching
    /\ break_flag' = FALSE
    /\ pc' = IF Len(patterns) = 0 THEN "rec" ELSE "match"

\* apply(r, m) up to the first node: a fresh Set, then _apply_rec(root, ..., 0),
\* whose max_depth test holds at cur_depth 0 whatever max_depth is
Apply ==
    /\ pc = "constructed"
    /\ \E r \in Trees, m \in MaxDepths :
          /\ root' = r
          /\ max_depth' = m
          /\ IF Len(r.tagName) > 0
             THEN EnterMatchNode(1) /\ match_iter' = match_iter
             ELSE /\ pc' = "apply"
                  /\ match_iter' = 1
                  /\ UNCHANGED << node, j, resp, break_flag >>
    /\ matches' = << >>
    /\ UNCHANGED << annotator, state, heap, log, transformed >>

\* a loop that never matches the same node again
Retries_Never(handle_resp) == FALSE

\* a loop that matches every node a second time
Retries_Always(handle_resp) == TRUE

\* _match_node's test for matching the same node again
Retries(handle_resp) == handle_resp = Completed

\* the pattern objects whose own matches() answered Matching between two
\* states of the objects: those whose applications-used counter went up
Counted(before, after) == { q \in DOMAIN table : after[q]._applied > before[q]._applied }

\* one pat.matches(node, depth) and its _handle_match, then the end of the
\* loop body: again for Completed, else on to the next pattern or out
Offer(again) ==
    \E R \in { Pattern_matches(patterns[j], node, Depth(node),
                               [ state |-> state, heap |-> heap ]) } :
    \E H \in { _handle_match(R.resp, patterns[j], matches, R.state[patterns[j]].match, R) } :
    LET flag == IF again THEN break_flag \/ H.break_flag ELSE H.break_flag
    IN
    /\ resp' = R.resp
    /\ log' = Append(log, [ node |-> node, j |-> j, depth |-> Depth(node),
                            resp |-> R.resp, again |-> again,
                            match |-> R.state[patterns[j]].match,
                            counted |-> Counted(state, R.state) ])
    /\ UNCHANGED << annotator, root, max_depth, node, match_iter, transformed >>
    /\ IF R.resp = TypeError \/ H.resp = TypeError
       THEN /\ pc' = "threw"
            /\ UNCHANGED << state, heap, matches, j, break_flag >>
       ELSE /\ state' = H.state
            /\ heap' = H.heap
            /\ matches' = H.matches
            /\ break_flag' = flag
            /\ IF ~ again /\ Retries(H.resp)
               THEN pc' = "again" /\ j' = j
               ELSE IF flag \/ j = Len(patterns)
               THEN pc' = "rec" /\ j' = j
               ELSE pc' = "match" /\ j' = j + 1

\* _match_node: the first call of the loop body
MatchNode == pc = "match" /\ Offer(FALSE)

\* _match_node: the call made again after Completed
MatchNodeAgain == pc = "again" /\ Offer(TRUE)

\* the node _apply_rec matches after `node`: its first child when it descends,
\* else the next node in document order outside its subtree; 0 when none
NextNode(descend) ==
    LET after == { m \in Nodes : m > node /\ (descend \/ m \notin Descendants(node)) }
    IN  IF after = {} THEN 0 ELSE CHOOSE m \in after : \A o \in after : m <= o

\* whether _apply_rec goes into the children of the node just matched
Descends ==
    /\ resp # Break
    /\ max_depth <= 0 \/ Depth(node) + 1 <= max_depth

\* _apply_rec after _match_node returned resp
ApplyRec ==
    /\ pc = "rec"
    /\ IF NextNode(Descends) # 0
       THEN EnterMatchNode(NextNode(Descends)) /\ match_iter' = match_iter
       ELSE /\ pc' = "apply"
            /\ match_iter' = 1
            /\ UNCHANGED << node, j, resp, break_flag >>
    /\ UNCHANGED << annotator, state, heap, root, max_depth, matches, log,
                    transformed >>

\* apply(): match.value.apply() for the next match of the Set
Transform ==
    /\ pc = "apply"
    /\ match_iter <= Len(matches)
    /\ LET match == matches[match_iter] IN
       IF match = null
       THEN pc' = "threw" /\ UNCHANGED << match_iter, transformed >>
       ELSE /\ transformed' = IF table[heap[match].parent].transform
                              THEN Append(transformed,
                                          [ match |-> match, offers |-> Len(log) ])
                              ELSE transformed
            /\ match_iter' = match_iter + 1
            /\ pc' = pc
    /\ UNCHANGED << annotator, state, heap, root, max_depth, matches, node, j,
                    resp, break_flag, log >>

\* apply() returns
Return ==
    /\ pc = "apply"
    /\ match_iter > Len(matches)
    /\ pc' = "done"
    /\ UNCHANGED << annotator, state, heap, root, max_depth, matches, node, j,
                    resp, break_flag, match_iter, log, transformed >>

Next == Apply \/ MatchNode \/ MatchNodeAgain \/ ApplyRec \/ Transform \/ Return

Spec == Init /\ [][Next]_vars

\* the annotators with a pattern of the given class among their objects
AnnotatorsWith(kind) ==
    { a \in DOMAIN Annotators :
        \E p \in DOMAIN Annotators[a].table : Annotators[a].table[p].kind = kind }

\* the traversals of the annotators that hold an Except pattern
InitExcept == Init /\ annotator \in AnnotatorsWith("Except")

SpecExcept == InitExcept /\ [][Next]_vars

\* the traversals of the annotators that hold an Ignored pattern
InitIgnored == Init /\ annotator \in AnnotatorsWith("Ignored")

SpecIgnored == InitIgnored /\ [][Next]_vars

\* the traversals of the annotators that hold a Sequence pattern
InitSequence == Init /\ annotator \in AnnotatorsWith("Sequence")

SpecSequence == InitSequence /\ [][Next]_vars

\* apply() is one sequential call: from its first statement until it returns
\* or throws, its next step is taken.  Every state of the running call has a
\* successor (Offer always answers, ApplyRec always goes on, and the final loop
\* either transforms or returns), every step changes a variable, and the
\* next-state relation allows no other change: weak fairness of the running call is
\* that, again and again, the call is not running or a variable changes
ApplyFairness ==
    \/ []<>(pc \in { "constructed", "done", "threw" })
    \/ []<><<pc \notin { "constructed", "done", "threw" }>>_vars

\* apply(r, m) with a max_depth that is not 0: _apply_rec's test (line 870)
\* takes the branch of the default -1 for 0, so the walk of apply(r, 0) is the
\* walk of apply(r)
ApplyDepth == Apply /\ max_depth' # 0

NextDepth == ApplyDepth \/ MatchNode \/ MatchNodeAgain \/ ApplyRec \/ Transform \/ Return

\* the traversals that can match a node again or move a cursor, run to their
\* end: only match_seq answers Completed
SpecTermination ==
    /\ InitSequence /\ [][NextDepth]_vars
    /\ WF_vars(ApplyDepth)
    /\ ApplyFairness

\* the traversals of the annotators that hold an All or an Any pattern
InitCombinators == Init /\ annotator \in AnnotatorsWith("All") \cup AnnotatorsWith("Any")

SpecCombinators == InitCombinators /\ [][Next]_vars

(***************************************************************************)
(* Vocabulary of the properties.                                           *)
(***************************************************************************)
Range(f) == { f[i] : i \in DOMAIN f }

\* the i-th child of pattern p
Kid(p, i) == p + table[p].kids[i]

\* the last of the objects pattern p is made of
RECURSIVE LastObject(_)
LastObject(p) ==
    IF table[p].kids = << >> THEN p ELSE LastObject(Kid(p, Len(table[p].kids)))

\* the top-level pattern of the k-th matches() call
LogPattern(k) == patterns[log[k].j]

\* the object graph of the current state
Graph == [ state |-> state, heap |-> heap ]

\* the node lists handed to the transforms, in order
TransformedNodes == [ i \in DOMAIN transformed |-> heap[transformed[i].match].nodes ]

\* the matches() call with which match m first entered the working set
FirstEntered(m) ==
    CHOOSE k \in DOMAIN log :
        /\ log[k].match = m
        /\ log[k].resp \in { Incomplete, Matching, Completed }
        /\ \A l \in 1..(k - 1) :
              ~ (log[l].match = m /\ log[l].resp \in { Incomplete, Matching, Completed })

\* PatternMatch.getNodeList({recurse: false}) of a node list: its elements
\* that are not a PatternMatch
getNodeList(nodes) == SelectSeq(nodes, LAMBDA x : x >= 0)

\* the pattern is as its reset() leaves it: it holds a fresh PatternMatch with
\* no tree node in it, a Sequence's cursor is at its first child, and the
\* anchor depth is cleared (AnyPattern.reset does not touch it)
IsReset(p) ==
    /\ table[p].kind # "Any" => state[p]._cur_depth = -1
    /\ state[p].match # null => getNodeList(heap[state[p].match].nodes) = << >>
    /\ state[p].cur = 0 /\ state[p].cur_counts = 0

(***************************************************************************)
(* C1: the section pattern alone, on the sibling list h2, p, p, h3, p:     *)
(* the transform is invoked exactly twice, with the nodes h2, p, p and     *)
(* then h3, p; h3 is answered Completed for the first match and, offered   *)
(* again to the reset sequence, is the first node of the second.           *)
(***************************************************************************)
C1_SectionExample ==
    (pc = "done" /\ root = SectionList /\ Annotators[annotator] = SectionAnnotator) =>
        /\ TransformedNodes = << << 1, 2, 3 >>, << 4, 5 >> >>
        /\ \E k \in DOMAIN log :
              /\ log[k].node = 4 /\ ~ log[k].again /\ log[k].resp = Completed
              /\ log[k].match = transformed[1].match
              /\ log[k + 1].node = 4 /\ log[k + 1].again
              /\ log[k + 1].resp = Incomplete
              /\ log[k + 1].match = transformed[2].match
        /\ \A k \in DOMAIN log : log[k].node = 4 => log[k].resp \in { Completed, Incomplete }

C1_Witness ==
    /\ Annotators[annotator] = SectionAnnotator /\ root = SectionList /\ pc = "done"
    /\ Len(transformed) = 2

(***************************************************************************)
(* C2: when a terminal top-level pattern answers Matching or Completed for *)
(* a node, no pattern is offered that node afterwards and no descendant of *)
(* the node is offered to any pattern.                                     *)
(***************************************************************************)
C2_TerminalFences ==
    \A k \in DOMAIN log :
        (table[LogPattern(k)].terminal /\ log[k].resp \in { Matching, Completed }) =>
            \A l \in DOMAIN log :
                /\ ~ (l > k /\ log[l].node = log[k].node)
                /\ log[l].node \notin Descendants(log[k].node)

(***************************************************************************)
(* C3: every PatternMatch handed to a transform is one for which its       *)
(* pattern answered Matching or Completed.                                 *)
(***************************************************************************)
C3_OnlyCompletedMatches ==
    \A i \in DOMAIN transformed :
        \E k \in DOMAIN log :
            /\ log[k].match = transformed[i].match
            /\ log[k].resp \in { Matching, Completed }

NonCompoundingWin ==
    /\ Len(log') = Len(log) + 1
    /\ pc' # "threw"
    /\ ~ table[patterns[j]].compounds
    /\ log'[Len(log')].resp \in { Matching, Completed }

C5_Kills ==
    NonCompoundingWin =>
        LET own == log'[Len(log')].match
            was == IF own \in Range(matches) THEN matches ELSE Append(matches, own)
            at == CHOOSE i \in DOMAIN was : was[i] = own
        IN  /\ matches' = SubSeq(was, 1, at)
            /\ \A i \in (at + 1)..Len(was) :
                  LET owner == heap[was[i]].parent
                  IN  /\ state'[owner]._cur_depth = -1
                      /\ state'[owner].cur = 0
                      /\ state'[owner].match \notin Range(matches) \cup {own}
                      /\ heap'[state'[owner].match].nodes = << >>

C5_NoLaterPattern ==
    \A k \in DOMAIN log :
        (~ table[LogPattern(k)].compounds /\ log[k].resp \in { Matching, Completed }) =>
            \A l \in DOMAIN log : ~ (l > k /\ log[l].node = log[k].node /\ log[l].j > log[k].j)

C5_NonCompounding == [][C5_Kills]_vars /\ []C5_NoLaterPattern

\* a non-compounding win with a match before its own and later patterns left
C5_Witness ==
    /\ log # << >>
    /\ LET k == Len(log) IN
       /\ ~ table[LogPattern(k)].compounds
       /\ log[k].resp \in { Matching, Completed }
       /\ log[k].j < Len(patterns)
       /\ Len(matches) >= 2
       /\ matches[Len(matches)] = log[k].match
       /\ \E l \in DOMAIN log :
             /\ log[l].resp = Matching
             /\ log[l].match \notin Range(matches)
             /\ FirstEntered(log[l].match) > FirstEntered(log[k].match)

(***************************************************************************)
(* C6: a top-level Ignored(Tag pre) offered a pre node answers Break; no   *)
(* pattern is offered that node afterwards, and no descendant of the node  *)
(* is offered to any pattern.                                              *)
(***************************************************************************)
IsIgnoredPre(p) ==
    /\ table[p].kind = "Ignored"
    /\ table[p + table[p].kids[1]].field_options = << "PRE" >>

C6_IgnoredFences ==
    \A k \in DOMAIN log :
        (IsIgnoredPre(LogPattern(k)) /\ root.tagName[log[k].node] = "PRE") =>
            /\ log[k].resp = Break
            /\ \A l \in DOMAIN log :
                  /\ ~ (l > k /\ log[l].node = log[k].node)
                  /\ log[l].node \notin Descendants(log[k].node)

\* a fenced pre node that has children, later patterns left, traversal over
C6_Witness ==
    /\ pc = "done"
    /\ \E k \in DOMAIN log :
          /\ IsIgnoredPre(LogPattern(k))
          /\ root.tagName[log[k].node] = "PRE"
          /\ Descendants(log[k].node) # {}
          /\ log[k].j < Len(patterns)

(***************************************************************************)
(* C7, as claimed: whenever a top-level pattern answers Completed for a    *)
(* node, whatever its flags, the finished match is registered, the pattern *)
(* is reset and the same node is offered to the same pattern once more.    *)
(***************************************************************************)
\* what follows the k-th call, a first call answered Completed
RetryFollows(k) ==
    /\ log[k].match \in Range(matches) \/ k < Len(log)
    /\ IF k = Len(log)
       THEN pc = "again" /\ IsReset(LogPattern(k))
       ELSE /\ log[k + 1].again
            /\ log[k + 1].node = log[k].node
            /\ log[k + 1].j = log[k].j

C7_RetryAlways ==
    \A k \in DOMAIN log :
        (log[k].resp = Completed /\ ~ log[k].again) => RetryFollows(k)

(***************************************************************************)
(* C7, amended: whenever a top-level pattern that is not terminal answers  *)
(* Completed for a node, the finished match is registered, the pattern is  *)
(* reset and the same node is offered to the same pattern once more; a     *)
(* terminal pattern's Completed is not followed by a second offer.         *)
(***************************************************************************)
C7_RetryUnlessTerminal ==
    \A k \in DOMAIN log :
        (log[k].resp = Completed /\ ~ log[k].again) =>
            IF table[LogPattern(k)].terminal
            THEN /\ ~ (k = Len(log) /\ pc = "again")
                 /\ k < Len(log) => ~ log[k + 1].again
            ELSE RetryFollows(k)

\* the second offer made to a pattern that does not compound, starting a match
C7_Witness ==
    /\ log # << >>
    /\ log[Len(log)].again
    /\ ~ table[LogPattern(Len(log))].compounds
    /\ log[Len(log)].resp = Incomplete

(***************************************************************************)
(* C8, as claimed: at every point of a traversal, for every node of the    *)
(* tree at its depth, Except(P).matches answers Matching exactly when      *)
(* P.matches answers NonMatching, and NonMatching exactly when P answers   *)
(* Matching or Completed.                                                  *)
(***************************************************************************)
Excepts == { p \in DOMAIN table : table[p].kind = "Except" }

\* the answers of Except pattern e and of the pattern it wraps, each called
\* on the current object graph
Negates(e, n, d) ==
    \E re \in { Pattern_matches(e, n, d, Graph).resp } :
    \E rp \in { Pattern_matches(e + table[e].kids[1], n, d, Graph).resp } :
        /\ re = Matching <=> rp = NonMatching
        /\ re = NonMatching <=> rp \in { Matching, Completed }

C8_NegationAlways ==
    \A e \in Excepts : \A n \in Nodes : Negates(e, n, Depth(n))

(***************************************************************************)
(* C8, amended: at every point of a traversal, for every node at its depth *)
(* for which none of the Except pattern's own short-circuit cases (its     *)
(* application cap, its depth window of 0 around the depth of its first    *)
(* match) trips, Except(P).matches answers Matching exactly when P answers *)
(* NonMatching and NonMatching exactly when P answers Matching or          *)
(* Completed; where one trips it answers Unapplied whatever P answers.     *)
(***************************************************************************)
C8_NegationWhenApplied ==
    \A e \in Excepts : \A n \in Nodes :
        IF ShortCircuits(table[e], state[e], Depth(n))
        THEN Pattern_matches(e, n, Depth(n), Graph).resp = Unapplied
        ELSE Negates(e, n, Depth(n))

\* an Except pattern that has answered Matching twice and NonMatching once
C8_Witness ==
    \E e \in Excepts :
        /\ state[e]._applied >= 2
        /\ state[e + table[e].kids[1]]._applied >= 1

(***************************************************************************)
(* C9: a pattern with an absolute-depth ceiling c >= 0 answers Unapplied   *)
(* for every node at every depth > c; the children of the root handed to   *)
(* apply() are at depth 0, so a ceiling of 0 leaves only them.             *)
(***************************************************************************)
\* the depths a node of a tree of the model can have
Depths == 0..MaxNodes

C9_DepthCeiling ==
    /\ \A p \in DOMAIN table :
          table[p].absolute_depth >= 0 =>
              \A n \in Nodes : \A d \in Depths :
                  d > table[p].absolute_depth =>
                      Pattern_matches(p, n, d, Graph).resp = Unapplied
    /\ \A k \in DOMAIN log :
          /\ log[k].depth = 0 <=> root.parentNode[log[k].node] = 0
          /\ (table[LogPattern(k)].absolute_depth >= 0
                /\ log[k].depth > table[LogPattern(k)].absolute_depth)
             => log[k].resp = Unapplied

\* a p below the top level, declined by the pattern that matches p at depth 0
C9_Witness ==
    \E k \in DOMAIN log :
        /\ table[LogPattern(k)].absolute_depth = 0
        /\ log[k].depth >= 1
        /\ root.tagName[log[k].node] = "P"
        /\ log[k].resp = Unapplied

(***************************************************************************)
(* C10: a top-level pattern with applications = 1 answers Unapplied for    *)
(* every node offered after its first completed match, whether that match  *)
(* was completed by Matching or by Completed, and at most one of its       *)
(* matches is handed to its transform.                                     *)
(***************************************************************************)
C10_ApplicationCap ==
    /\ \A k \in DOMAIN log :
          (table[LogPattern(k)].applications = 1 /\ log[k].resp \in { Matching, Completed })
             => \A l \in DOMAIN log :
                   (l > k /\ log[l].j = log[k].j) => log[l].resp = Unapplied
    /\ \A p \in Range(patterns) :
          table[p].applications = 1 =>
              Cardinality({ i \in DOMAIN transformed :
                              heap[transformed[i].match].parent = p }) <= 1

(***************************************************************************)
(* C11: a Tag pattern configured with the tag set {"p"} and nothing else   *)
(* answers Matching for every node whose tag is "p" in either letter case  *)
(* and NonMatching for every node with another tag; under the orchestrator *)
(* its live accumulator is empty whenever a node is about to be offered.   *)
(***************************************************************************)
\* a top-level TagPattern(['p']) with the default depths and applications
IsTagP(p) ==
    /\ table[p].kind = "Simple"
    /\ table[p].field_name = "tagName"
    /\ table[p].field_options = << "P" >>
    /\ table[p].depth = DefaultDepth
    /\ table[p].absolute_depth = DefaultAbsDepth
    /\ table[p].applications = DefaultApplications

C11_TagAnyCase ==
    /\ \A k \in DOMAIN log :
          IsTagP(LogPattern(k)) =>
              log[k].resp = IF root.tagName[log[k].node] \in { "p", "P" }
                            THEN Matching ELSE NonMatching
    /\ \A p \in Range(patterns) :
          (IsTagP(p) /\ pc \in { "match", "again" }) =>
              heap[state[p].match].nodes = << >>

(***************************************************************************)
(* C12: for a top-level Sequence with the default depth settings, the      *)
(* nodes of every accumulator handed to the transform are a contiguous run *)
(* of siblings: they have the same parent and each is the next child of it *)
(* after the one before.                                                   *)
(***************************************************************************)
\* the next element child of n's parent after n; 0 when n is the last
NextSibling(n) ==
    LET later == { m \in Nodes : m > n /\ root.parentNode[m] = root.parentNode[n] }
    IN  IF later = {} THEN 0 ELSE CHOOSE m \in later : \A o \in later : m <= o

IsSiblingRun(nodes) ==
    \A i \in 1..(Len(nodes) - 1) : nodes[i + 1] = NextSibling(nodes[i])

C12_SiblingRuns ==
    \A i \in DOMAIN transformed :
        LET owner == table[heap[transformed[i].match].parent] IN
        (owner.kind = "Sequence" /\ owner.depth = DefaultDepth
            /\ owner.absolute_depth = DefaultAbsDepth) =>
                IsSiblingRun(heap[transformed[i].match].nodes)

(***************************************************************************)
(* apply(root, max_depth) of an Annotator whose only pattern is p, on      *)
(* freshly constructed pattern objects: the run a pattern of a list is     *)
(* compared with.  A is the run so far: the object graph, the working set, *)
(* the responses of p, and whether a call threw.                           *)
(***************************************************************************)
\* the nodes _apply_rec offers when no call answers Break, in document order
Visited ==
    SelectSeq([ n \in Nodes |-> n ], LAMBDA n : max_depth <= 0 \/ Depth(n) <= max_depth)

\* one pat.matches(n, depth) and its _handle_match
AloneOffer(p, n, A) ==
    LET R == Pattern_matches(p, n, Depth(n), [ state |-> A.state, heap |-> A.heap ])
        H == _handle_match(R.resp, p, A.matches, R.state[p].match, R)
    IN  IF R.resp = TypeError \/ H.resp = TypeError
        THEN [ A EXCEPT !.resps = Append(@, R.resp), !.threw = TRUE, !.again = FALSE ]
        ELSE [ state |-> H.state, heap |-> H.heap, matches |-> H.matches,
               resps |-> Append(A.resps, R.resp), threw |-> FALSE,
               again |-> Retries(H.resp) ]

\* _match_node(n, ...) with the one pattern
AloneMatchNode(p, n, A) ==
    LET B == AloneOffer(p, n, A)
    IN  IF B.again THEN AloneOffer(p, n, B) ELSE B

RECURSIVE AloneRec(_, _, _)
AloneRec(p, nodes, A) ==
    IF nodes = << >> \/ A.threw THEN A
    ELSE AloneRec(p, Tail(nodes), AloneMatchNode(p, Head(nodes), A))

RECURSIVE Applied(_, _)
\* the final loop of apply(): the node lists handed to transforms, up to the
\* first null entry, on which match.value.apply() throws
Applied(ms, hp) ==
    IF ms = << >> \/ Head(ms) = null THEN << >>
    ELSE (IF table[hp[Head(ms)].parent].transform THEN << hp[Head(ms)].nodes >> ELSE << >>)
         \o Applied(Tail(ms), hp)

\* the responses of p and the node lists handed to its transform
AloneApply(p) ==
    LET A == AloneRec(p, Visited,
                      [ state |-> InitialState(table), heap |-> InitialHeap(table),
                        matches |-> << >>, resps |-> << >>, threw |-> FALSE,
                        again |-> FALSE ])
    IN  [ resps |-> A.resps,
          transformed |-> IF A.threw THEN << >> ELSE Applied(A.matches, A.heap) ]

(***************************************************************************)
(* C13: if every top-level pattern has compounds = true and terminal =     *)
(* false and none ever answers Break, then, when apply() has ended, the    *)
(* responses of each pattern and the node lists handed to its transform    *)
(* are those of the same pattern run as the only one of the list.          *)
(***************************************************************************)
\* the responses of the jj-th pattern, in order
ResponsesOf(jj) ==
    LET calls == SelectSeq(log, LAMBDA c : c.j = jj)
    IN  [ k \in DOMAIN calls |-> calls[k].resp ]

\* the node lists handed to the transform of pattern p, in order
TransformedOf(p) ==
    LET own == SelectSeq(transformed, LAMBDA t : heap[t.match].parent = p)
    IN  [ k \in DOMAIN own |-> heap[own[k].match].nodes ]

AllCompound ==
    /\ \A p \in Range(patterns) : table[p].compounds /\ ~ table[p].terminal
    /\ \A k \in DOMAIN log : log[k].resp # Break

C13_Coexist ==
    (pc \in { "done", "threw" } /\ AllCompound) =>
        \A jj \in DOMAIN patterns :
            \E A \in { AloneApply(patterns[jj]) } :
                /\ ResponsesOf(jj) = A.resps
                /\ TransformedOf(patterns[jj]) = A.transformed

(***************************************************************************)
(* C14: at every point of a traversal and for every node, a PatternTest    *)
(* constructed from a pattern P and a predicate t answers a response and   *)
(* never fails; it answers Matching exactly when P answers Matching and t  *)
(* is true of the node, and NonMatching when P answers Matching and t is   *)
(* false of it.                                                            *)
(***************************************************************************)
\* the PatternTest objects
Tests == { t \in DOMAIN table : table[t].kind = "Test" }

C14_TestConjunction ==
    \A t \in Tests : \A n \in Nodes :
        \E rt \in { Pattern_matches(t, n, Depth(n), Graph).resp } :
        \E rp \in { Pattern_matches(t + table[t].kids[1], n, Depth(n), Graph).resp } :
        LET holds == root.tagName[n] \in table[t].test IN
        /\ rt # TypeError
        /\ rt = Matching <=> (rp = Matching /\ holds)
        /\ (rp = Matching /\ ~ holds) => rt = NonMatching

(***************************************************************************)
(* C15: at every point of a traversal, a pattern with a relative depth     *)
(* window w >= 0 and a recorded anchor depth a answers Unapplied for every *)
(* node whose depth is outside [a, a + w], deeper or shallower, and runs   *)
(* its matcher for every node whose depth is inside, no other precondition *)
(* tripping.                                                               *)
(***************************************************************************)
InWindow(p, d) ==
    /\ state[p]._cur_depth <= d
    /\ d <= state[p]._cur_depth + table[p].depth

C15_WindowBothSides ==
    \A p \in DOMAIN table :
        (table[p].depth >= 0 /\ state[p]._cur_depth >= 0) =>
            \A n \in Nodes :
                \E R \in { Pattern_matches(p, n, Depth(n), Graph) } :
                    IF InWindow(p, Depth(n))
                    THEN (table[p].absolute_depth = DefaultAbsDepth
                            /\ table[p].applications = DefaultApplications)
                         => R = Matched(p, n, Depth(n), matcher(p, n, Depth(n), Graph))
                    ELSE R.resp = Unapplied

(***************************************************************************)
(* C16: whenever a node is about to be offered to a pattern, for every     *)
(* object of that pattern none of whose preconditions trips,               *)
(* matches(node, depth) appends the node to the object's live accumulator, *)
(* once, if it answers Matching or Incomplete and leaves the accumulator   *)
(* as it was for every other response; the applications-used counter goes  *)
(* up by one on Matching and is unchanged for every other response.        *)
(***************************************************************************)
C16_MatchesEffects ==
    pc \in { "match", "again" } =>
        \A p \in patterns[j]..LastObject(patterns[j]) :
            ~ ShortCircuits(table[p], state[p], Depth(node)) =>
                \E R \in { Pattern_matches(p, node, Depth(node), Graph) } :
                    LET m == state[p].match IN
                    /\ R.state[p].match = m
                    /\ m # null =>
                          R.heap[m].nodes = IF R.resp \in { Matching, Incomplete }
                                            THEN Append(heap[m].nodes, node)
                                            ELSE heap[m].nodes
                    /\ R.state[p]._applied =
                          state[p]._applied + (IF R.resp = Matching THEN 1 ELSE 0)

\* a Sequence that answered Incomplete, then Matching, then NonMatching
C16_Witness ==
    \E k, l, m \in DOMAIN log :
        /\ k < l /\ l < m
        /\ log[l].j = log[k].j /\ log[m].j = log[k].j
        /\ log[k].resp = Incomplete
        /\ log[l].resp = Matching
        /\ log[m].resp = NonMatching
        /\ heap[log[l].match].nodes = << log[k].node, log[l].node >>
        /\ state[LogPattern(k)]._applied = 1

(***************************************************************************)
(* C17: at every point of a traversal, the anchor depth of a top-level     *)
(* pattern that holds an accumulator is unset while the live accumulator   *)
(* holds no node and is otherwise the depth of the accumulator's first     *)
(* node: it is recorded with the first node accepted after a reset and is  *)
(* not changed by a later response until the next reset.                   *)
(***************************************************************************)
C17_AnchorIsFirstDepth ==
    \A p \in Range(patterns) :
        state[p].match # null =>
            LET nodes == getNodeList(heap[state[p].match].nodes) IN
            state[p]._cur_depth = IF nodes = << >> THEN -1 ELSE Depth(nodes[1])

(***************************************************************************)
(* C18: at every point of a traversal, reset() on a pattern that manages   *)
(* its own accumulator clears its anchor depth (and a Sequence's cursor),  *)
(* installs a fresh empty accumulator as the live one, and leaves the      *)
(* previous accumulator, the applications-used counter and every other     *)
(* object as they were; and no step of a traversal changes an accumulator  *)
(* that is not the live one of its pattern.                                *)
(***************************************************************************)
C18_ResetEffects ==
    \A p \in DOMAIN table :
        (table[p].manage_match /\ state[p].match # null) =>
            \E G \in { reset(p, Graph) } :
                LET old == state[p].match
                    new == G.state[p].match
                IN  /\ G.state[p]._cur_depth = -1
                    /\ G.state[p].cur = 0 /\ G.state[p].cur_counts = 0
                    /\ G.state[p]._applied = state[p]._applied
                    /\ new \notin DOMAIN heap
                    /\ G.heap[new] = [ parent |-> p, nodes |-> << >> ]
                    /\ \A m \in DOMAIN heap : G.heap[m] = heap[m]
                    /\ \A q \in DOMAIN table \ {p} : G.state[q] = state[q]

C18_ReturnedFrozen ==
    \A m \in DOMAIN heap :
        state[heap[m].parent].match # m => heap'[m] = heap[m]

C18_Reset == []C18_ResetEffects /\ [][C18_ReturnedFrozen]_vars

\* a pattern reset with two nodes in its accumulator that has since accepted
\* another node
C18_Witness ==
    \E m \in DOMAIN heap :
        LET p == heap[m].parent IN
        /\ state[p].match # m
        /\ Len(heap[m].nodes) >= 2
        /\ heap[state[p].match].nodes # << >>
        /\ state[p]._applied >= 1

(***************************************************************************)
(* C19: when a top-level pattern is offered a node for which one of its    *)
(* own preconditions trips, it answers Unapplied and the call changes      *)
(* nothing: the pattern objects (accumulators, anchor depths, counters,    *)
(* cursors) and the working set are as before, the pattern is not reset,   *)
(* the break flag is not set and the node is not offered again; a match in *)
(* progress goes on with a later node.                                     *)
(***************************************************************************)
C19_Declined ==
    (Len(log') = Len(log) + 1
        /\ ShortCircuits(table[patterns[j]], state[patterns[j]], Depth(node))) =>
            /\ log'[Len(log')].resp = Unapplied
            /\ state' = state
            /\ heap' = heap
            /\ matches' = matches
            /\ break_flag' = (pc = "again" /\ break_flag)
            /\ pc' # "again"

C19_UnappliedFrame == [][C19_Declined]_vars

\* a match that was started, declined a node and then accepted a later one
C19_Witness ==
    \E k, l, m \in DOMAIN log :
        /\ k < l /\ l < m
        /\ log[l].j = log[k].j /\ log[m].j = log[k].j
        /\ log[k].resp = Incomplete
        /\ log[l].resp = Unapplied /\ log[l].match = log[k].match
        /\ log[m].resp = Incomplete /\ log[m].match = log[k].match
        /\ heap[log[k].match].nodes = << log[k].node, log[m].node >>

(***************************************************************************)
(* C20: whenever a node is about to be offered, for a Sequence none of     *)
(* whose own preconditions trips and whose child at the cursor has a       *)
(* repeat bound and answers NonMatching for the node: if the repeat        *)
(* counter is at least that child's minimum the cursor advances; past the  *)
(* last child the Sequence answers Completed and its accumulator is as     *)
(* before; otherwise the same node is offered to the next child, whose     *)
(* acceptance makes the Sequence accept the node, appended once, and whose *)
(* Unapplied, Break or Incomplete is the Sequence's answer.  If the        *)
(* counter is below the minimum the Sequence answers NonMatching and the   *)
(* cursor does not move.                                                   *)
(***************************************************************************)
Sequences == { p \in DOMAIN table : table[p].kind = "Sequence" }

\* the child of Sequence p at cursor c (counted from 0)
ChildAt(p, c) == p + table[p].kids[c + 1]

C20_SequenceRollover ==
    pc \in { "match", "again" } =>
    \A p \in Sequences :
        LET c == state[p].cur
            d == Depth(node)
            m == state[p].match
        IN
        (/\ c < Len(table[p].kids) /\ c < Len(table[p].repeats)
         /\ ~ ShortCircuits(table[p], state[p], d)) =>
        \E rc \in { Pattern_matches(ChildAt(p, c), node, d, Graph) } :
        rc.resp = NonMatching =>
        \E R \in { Pattern_matches(p, node, d, Graph) } :
        IF state[p].cur_counts < table[p].repeats[c + 1][1]
        THEN /\ R.resp = NonMatching
             /\ R.state[p].cur = c
             /\ R.state[p].cur_counts = state[p].cur_counts
        ELSE IF c + 1 >= Len(table[p].kids)
        THEN /\ R.resp = Completed
             /\ R.state[p].cur = c + 1
             /\ R.heap = heap
        ELSE
        \E rn \in { Pattern_matches(ChildAt(p, c + 1), node, d,
                                    [ state |-> inc_pattern(p, rc.state),
                                      heap |-> rc.heap ]) } :
             /\ R.state[p].cur >= c + 1
             /\ rn.resp \in { Matching, Completed } =>
                    /\ R.resp \in { Matching, Incomplete }
                    /\ m # null => R.heap[m].nodes = Append(heap[m].nodes, node)
             /\ rn.resp \in { Unapplied, Break, Incomplete } =>
                    /\ R.resp = rn.resp
                    /\ R.state[p].cur = c + 1

\* a heading, a p and a pre accepted by a Sequence of three children, the pre
\* after the second child answered NonMatching for it
C20_Witness ==
    \E k \in DOMAIN log :
        /\ table[LogPattern(k)].kind = "Sequence"
        /\ Len(table[LogPattern(k)].kids) = 3
        /\ log[k].resp = Matching
        /\ Len(heap[log[k].match].nodes) = 3

(***************************************************************************)
(* C21: whenever a node is about to be offered, for a Sequence none of     *)
(* whose own preconditions trips and whose child at the cursor has a       *)
(* repeat bound and answers Matching for the node: the repeat counter goes *)
(* up by one; if it thereby reaches the child's maximum, a maximum of -1   *)
(* never being reached, the cursor advances and the counter is 0 again;    *)
(* the Sequence answers Matching if the cursor has passed the last child   *)
(* and Incomplete otherwise.  With no repeats given, a Sequence answers    *)
(* Matching when its accumulator holds one node per child, and not before. *)
(***************************************************************************)
\* the maximum of the repeat bound of Sequence p's child at cursor c
MaxCount(p, c) == table[p].repeats[c + 1][Len(table[p].repeats[c + 1])]

C21_SequenceCounts ==
    /\ pc \in { "match", "again" } =>
        \A p \in Sequences :
            LET c == state[p].cur
                d == Depth(node)
                counted == state[p].cur_counts + 1
            IN
            (/\ c < Len(table[p].kids) /\ c < Len(table[p].repeats)
             /\ ~ ShortCircuits(table[p], state[p], d)) =>
            \E rc \in { Pattern_matches(ChildAt(p, c), node, d, Graph).resp } :
            rc = Matching =>
            \E R \in { Pattern_matches(p, node, d, Graph) } :
            LET advances == MaxCount(p, c) # -1 /\ counted >= MaxCount(p, c) IN
            /\ R.state[p].cur = IF advances THEN c + 1 ELSE c
            /\ R.state[p].cur_counts = IF advances THEN 0 ELSE counted
            /\ R.resp = IF advances /\ c + 1 >= Len(table[p].kids)
                        THEN Matching ELSE Incomplete
    /\ \A p \in Range(patterns) :
          (table[p].kind = "Sequence"
              /\ table[p].repeats = [ i \in DOMAIN table[p].kids |-> << 1 >> ]) =>
                  /\ Len(heap[state[p].match].nodes) < Len(table[p].kids)
                  /\ \A k \in DOMAIN log :
                        (LogPattern(k) = p /\ log[k].resp = Matching) =>
                            Len(heap[log[k].match].nodes) = Len(table[p].kids)

\* a Sequence with the bound [1, 2] that answered Incomplete for a first node
\* and Matching for a second
C21_Witness ==
    \E k \in DOMAIN log :
        /\ table[LogPattern(k)].repeats = << << 1, 2 >> >>
        /\ log[k].resp = Matching
        /\ Len(heap[log[k].match].nodes) = 2

(***************************************************************************)
(* C22: at every point of a traversal, the live accumulator of a top-level *)
(* Sequence holds exactly the nodes for which the Sequence answered        *)
(* Matching or Incomplete since its last reset, in the order they were     *)
(* offered, each once; the children of a Sequence hold no accumulator.     *)
(***************************************************************************)
\* the nodes pattern p accepted into accumulator m, in the order of the calls
AcceptedInto(p, m) ==
    LET calls == SelectSeq(log, LAMBDA c : /\ patterns[c.j] = p
                                           /\ c.match = m
                                           /\ c.resp \in { Matching, Incomplete })
    IN  [ k \in DOMAIN calls |-> calls[k].node ]

C22_SequenceAccumulator ==
    \A p \in Sequences :
        /\ p \in Range(patterns) =>
              heap[state[p].match].nodes = AcceptedInto(p, state[p].match)
        /\ \A i \in DOMAIN table[p].kids : state[p + table[p].kids[i]].match = null

\* a live accumulator of two nodes, a node between them having been declined
C22_Witness ==
    \E p \in Sequences :
        /\ p \in Range(patterns)
        /\ Len(heap[state[p].match].nodes) = 2
        /\ \E k \in DOMAIN log :
              /\ LogPattern(k) = p /\ log[k].match = state[p].match
              /\ log[k].resp = Unapplied
              /\ heap[state[p].match].nodes[1] < log[k].node
              /\ log[k].node < heap[state[p].match].nodes[2]

(***************************************************************************)
(* C23: whenever a node is about to be offered, an All pattern none of     *)
(* whose own preconditions trips answers the response of its first child,  *)
(* in list order, that does not answer Matching, or Matching when every    *)
(* child does; the children before that child have counted a match, the    *)
(* children after it are as they were; and no accumulator but the All      *)
(* pattern's own changes.                                                  *)
(***************************************************************************)
Alls == { p \in DOMAIN table : table[p].kind = "All" }

C23_AllInOrder ==
    pc \in { "match", "again" } =>
    \A p \in Alls :
        LET d == Depth(node)
            kids == DOMAIN table[p].kids
            rs == [ i \in kids |-> Pattern_matches(Kid(p, i), node, d, Graph).resp ]
            stops == { i \in kids : rs[i] # Matching }
        IN
        ~ ShortCircuits(table[p], state[p], d) =>
        \E R \in { Pattern_matches(p, node, d, Graph) } :
            /\ IF stops = {}
               THEN /\ R.resp = Matching
                    /\ \A k \in kids :
                          R.state[Kid(p, k)]._applied = state[Kid(p, k)]._applied + 1
               ELSE \E i \in stops :
                       /\ \A k \in stops : i <= k
                       /\ R.resp = rs[i]
                       /\ \A k \in kids : k < i =>
                             R.state[Kid(p, k)]._applied = state[Kid(p, k)]._applied + 1
                       /\ \A k \in kids : k > i => R.state[Kid(p, k)] = state[Kid(p, k)]
            /\ \A k \in kids : state[Kid(p, k)].match = null
            /\ \A m \in DOMAIN heap : m # state[p].match => R.heap[m] = heap[m]
            /\ R.heap[state[p].match].nodes =
                  IF R.resp \in { Matching, Incomplete }
                  THEN Append(heap[state[p].match].nodes, node)
                  ELSE heap[state[p].match].nodes

\* an All pattern about to be offered a node that its first child declines and
\* its second child would accept
C23_Witness ==
    /\ pc = "match"
    /\ patterns[j] \in Alls
    /\ Pattern_matches(Kid(patterns[j], 1), node, Depth(node), Graph).resp = Unapplied
    /\ Pattern_matches(Kid(patterns[j], 2), node, Depth(node), Graph).resp = Matching

(***************************************************************************)
(* C24: whenever a node is about to be offered, an Any pattern none of     *)
(* whose own preconditions trips offers the node to its children in list   *)
(* order and answers the response of the first child that answers neither  *)
(* NonMatching nor Unapplied; the children before that child and the       *)
(* child itself have been offered the node, the children after it have     *)
(* not and are as they were; when every child answers NonMatching or       *)
(* Unapplied the answer is the last child's.                               *)
(***************************************************************************)
Anys == { p \in DOMAIN table : table[p].kind = "Any" }

C24_AnyInOrder ==
    pc \in { "match", "again" } =>
    \A p \in Anys :
        LET d == Depth(node)
            kids == DOMAIN table[p].kids
            alone == [ i \in kids |-> Pattern_matches(Kid(p, i), node, d, Graph) ]
            stops == { i \in kids : alone[i].resp \notin { NonMatching, Unapplied } }
            offered(i, R) == \A q \in Kid(p, i)..LastObject(Kid(p, i)) :
                                R.state[q] = alone[i].state[q]
            skipped(i, R) == \A q \in Kid(p, i)..LastObject(Kid(p, i)) :
                                /\ R.state[q] = state[q]
                                /\ state[q].match # null =>
                                      R.heap[state[q].match] = heap[state[q].match]
        IN
        ~ ShortCircuits(table[p], state[p], d) =>
        \E R \in { Pattern_matches(p, node, d, Graph) } :
            IF stops = {}
            THEN /\ R.resp = alone[Len(table[p].kids)].resp
                 /\ \A k \in kids : offered(k, R)
            ELSE \E i \in stops :
                    /\ \A k \in stops : i <= k
                    /\ R.resp = alone[i].resp
                    /\ \A k \in kids : k <= i => offered(k, R)
                    /\ \A k \in kids : k > i => skipped(k, R)

\* an Any pattern about to be offered a node that its first child declines, its
\* second child takes as Incomplete and its third child would accept
C24_Witness ==
    /\ pc = "match"
    /\ patterns[j] \in Anys
    /\ Pattern_matches(Kid(patterns[j], 1), node, Depth(node), Graph).resp = NonMatching
    /\ Pattern_matches(Kid(patterns[j], 2), node, Depth(node), Graph).resp = Incomplete
    /\ Pattern_matches(Kid(patterns[j], 3), node, Depth(node), Graph).resp = Matching

(***************************************************************************)
(* C25: at every point of a traversal, the element list of an Any          *)
(* pattern's live accumulator is exactly the list of its children's        *)
(* current accumulators, one per child in child order, and so holds no     *)
(* tree node.                                                              *)
(***************************************************************************)
\* the wrapper the constructor and reset() of Any pattern p build
Wrapper(p, st) == [ i \in DOMAIN table[p].kids |-> Ref(st[Kid(p, i)].match) ]

C25_AnyWrapper ==
    \A p \in Anys : heap[state[p].match].nodes = Wrapper(p, state)

(***************************************************************************)
(* C26: whenever a node is about to be offered, an Ignored pattern none of *)
(* whose own preconditions trips answers Break when the pattern it wraps   *)
(* answers Incomplete, Matching or Break and that pattern's response       *)
(* (NonMatching, Completed or Unapplied) otherwise; and at every point of  *)
(* a traversal its own accumulator is empty and its applications-used      *)
(* counter is 0.                                                           *)
(***************************************************************************)
Ignoreds == { p \in DOMAIN table : table[p].kind = "Ignored" }

C26_IgnoredResponse ==
    /\ \A p \in Ignoreds :
          /\ state[p]._applied = 0
          /\ state[p].match # null => heap[state[p].match].nodes = << >>
    /\ pc \in { "match", "again" } =>
          \A p \in Ignoreds :
              ~ ShortCircuits(table[p], state[p], Depth(node)) =>
                  \E r \in { Pattern_matches(Kid(p, 1), node, undefined, Graph).resp } :
                      Pattern_matches(p, node, Depth(node), Graph).resp =
                          IF r \in { Incomplete, Matching, Break } THEN Break ELSE r

\* an Ignored pattern about to be offered a node that the Sequence it wraps takes
\* as Incomplete
C26_Witness ==
    /\ pc = "match"
    /\ patterns[j] \in Ignoreds
    /\ Pattern_matches(Kid(patterns[j], 1), node, undefined, Graph).resp = Incomplete

CompletedBy(p) ==
    { log[k].match : k \in { l \in DOMAIN log : /\ LogPattern(l) = p
                                                /\ log[l].resp \in { Matching, Completed } } }
    \cap Range(matches)

C28_NonMatchingStep ==
    (Len(log') = Len(log) + 1 /\ resp' = NonMatching) =>
        LET p == patterns[j]
            own == p..LastObject(p)
        IN
        \E R \in { Pattern_matches(p, node, Depth(node), Graph) } :
        \E G \in { reset(p, R) } :
            /\ state' = G.state /\ heap' = G.heap
            /\ matches' = SelectSeq(matches, LAMBDA m : m # R.state[p].match)
            /\ CompletedBy(p) \subseteq Range(matches')
            /\ \A q \in DOMAIN table \ own : state'[q] = state[q]
            /\ \A m \in DOMAIN heap : heap[m].parent \notin own => heap'[m] = heap[m]

C28_NonMatchingFrame == [][C28_NonMatchingStep]_vars

(***************************************************************************)
(* C29: whenever a node is about to be offered to a top-level pattern, the *)
(* field matcher of every Field pattern within it answers by the value of  *)
(* the node's attribute and the options alone: with quantifier any,        *)
(* Matching iff some option satisfies the comparison; with quantifier all, *)
(* Matching iff no option fails it; the comparison is equality in exact    *)
(* mode and containment otherwise.  A top-level Field pattern without      *)
(* depth or application limits gives that answer every time the node is    *)
(* offered: the answer just logged is that one.                            *)
(***************************************************************************)
IsField(p) == table[p].kind = "Simple"

\* the value of the attribute pattern p looks at, for node n
Attribute(p, n) == root[table[p].field_name][n]

\* string c occurs in string s
Contains(s, c) ==
    \E a \in 0..Len(Chars[s]) : \E b \in a..Len(Chars[s]) :
        SubSeq(Chars[s], a + 1, b) = Chars[c]

\* the i-th option of p satisfies the comparison with node n's attribute
Satisfies(p, n, i) ==
    IF table[p].exact
    THEN Attribute(p, n) = table[p].field_options[i]
    ELSE Contains(Attribute(p, n), table[p].field_options[i])

\* the answer for node n by the quantifier of p
Answer(p, n) ==
    LET options == DOMAIN table[p].field_options IN
    IF table[p].all
    THEN IF \A i \in options : Satisfies(p, n, i) THEN Matching ELSE NonMatching
    ELSE IF \E i \in options : Satisfies(p, n, i) THEN Matching ELSE NonMatching

Unlimited(p) ==
    /\ table[p].depth = DefaultDepth
    /\ table[p].absolute_depth = DefaultAbsDepth
    /\ table[p].applications = DefaultApplications

C29_FieldAnswer ==
    /\ pc \in { "match", "again" } =>
          \A p \in patterns[j]..LastObject(patterns[j]) :
              IsField(p) =>
                  /\ match_field(Attribute(p, node), table[p].field_options,
                                 table[p].exact, table[p].all) = Answer(p, node)
                  /\ table[p].field_options = << >> =>
                        Answer(p, node) = IF table[p].all THEN Matching ELSE NonMatching
    /\ \A k \in DOMAIN log \cap { Len(log) } :
          (IsField(LogPattern(k)) /\ Unlimited(LogPattern(k))) =>
              log[k].resp = Answer(LogPattern(k), log[k].node)

\* the class list walked by patterns of both quantifiers in both modes, among
\* them two with no option, with containment and equality telling "note warn"
\* apart
C29_Witness ==
    /\ pc = "done"
    /\ root = ClassList
    /\ \E k, l \in DOMAIN log :
          /\ log[k].node = 2 /\ log[l].node = 2
          /\ table[LogPattern(k)].field_options = << "note", "warn" >>
          /\ table[LogPattern(l)].field_options = << "note", "warn" >>
          /\ ~ table[LogPattern(k)].exact /\ log[k].resp = Matching
          /\ table[LogPattern(l)].exact /\ log[l].resp = NonMatching
    /\ \E k, l \in DOMAIN log :
          /\ table[LogPattern(k)].field_options = << >>
          /\ table[LogPattern(l)].field_options = << >>
          /\ log[k].resp = Matching /\ log[l].resp = NonMatching

(***************************************************************************)
(* C30: apply(root, m) offers nodes in document (depth-first pre-) order,  *)
(* never the root itself, a child of the root at depth 0 and every other   *)
(* node one deeper than its parent; with a maximum depth m >= 0 supplied   *)
(* no node deeper than m is offered; with none supplied every node that    *)
(* is not below a node answered with Break has been offered when the       *)
(* traversal is over.                                                      *)
(***************************************************************************)
\* the response _match_node returned for node n: that of its last matches() call
Returned(n) ==
    LET ks == { k \in DOMAIN log : log[k].node = n }
    IN  log[CHOOSE k \in ks : \A l \in ks : l <= k].resp

Offered == { log[k].node : k \in DOMAIN log }

\* the nodes below a node that has been answered with Break
FencedOff == { n \in Nodes : \E a \in Offered : n \in Descendants(a) /\ Returned(a) = Break }

C30_PreOrder ==
    /\ \A k \in DOMAIN log :
          /\ log[k].node \in Nodes
          /\ log[k].depth = IF root.parentNode[log[k].node] = 0 THEN 0
                            ELSE 1 + Depth(root.parentNode[log[k].node])
          /\ \A l \in DOMAIN log : k < l => log[k].node <= log[l].node
    /\ (max_depth = -1 /\ pc \in { "apply", "done" }) => Offered = Nodes \ FencedOff

C30_Traversal ==
    /\ C30_PreOrder
    /\ max_depth >= 0 => \A k \in DOMAIN log : log[k].depth <= max_depth

(***************************************************************************)
(* C31: apply() ends (it returns, or throws) on every tree and pattern      *)
(* list; a top-level pattern is offered a visited node at most twice, the   *)
(* second time only directly after it answered Completed for that node,     *)
(* and never a third time even if the second answer is Completed again;     *)
(* one offer moves the cursor of a Sequence forward by at most the number   *)
(* of its children.                                                         *)
(***************************************************************************)
\* the matches() calls made so far for the node and pattern of the k-th call
SameOffer(k) == { l \in DOMAIN log : log[l].node = log[k].node /\ log[l].j = log[k].j }

C31_OfferBound ==
    \A k \in DOMAIN log \cap { Len(log) } :
        /\ Cardinality(SameOffer(k)) <= 2
        /\ ~ log[k].again => SameOffer(k) = { k }
        /\ log[k].again =>
              /\ SameOffer(k) = { k - 1, k }
              /\ ~ log[k - 1].again /\ log[k - 1].resp = Completed

C31_CursorBound ==
    (pc \in { "match", "again" }
        /\ Sequences \cap (patterns[j]..LastObject(patterns[j])) # {}) =>
        \E R \in { Pattern_matches(patterns[j], node, Depth(node), Graph).state } :
        \A p \in Sequences \cap (patterns[j]..LastObject(patterns[j])) :
            /\ R[p].cur >= state[p].cur
            /\ R[p].cur - state[p].cur <= Len(table[p].kids)

C31_Terminates ==
    /\ <>(pc \in { "done", "threw" })
    /\ [](C31_OfferBound /\ C31_CursorBound)

\* a traversal has ended in which a Sequence went through all its children in
\* one offer, answered Completed, and did the same when offered the node again
C31_Witness ==
    /\ pc = "done"
    /\ \E k \in DOMAIN log :
          /\ log[k].again /\ log[k].resp = Completed /\ log[k - 1].resp = Completed
          /\ table[LogPattern(k)].kind = "Sequence"

(***************************************************************************)
(* C32: when apply() has returned, every top-level pattern holds an        *)
(* accumulator with no node in it that was not handed to a transform, its  *)
(* anchor depth is cleared, and the cursor and repeat counter of a         *)
(* Sequence are 0.                                                         *)
(***************************************************************************)
C32_FreshOnReturn ==
    pc = "done" =>
        \A p \in Range(patterns) :
            /\ state[p]._cur_depth = -1
            /\ state[p].cur = 0 /\ state[p].cur_counts = 0
            /\ state[p].match # null =>
                  /\ getNodeList(heap[state[p].match].nodes) = << >>
                  /\ state[p].match \notin Range(matches)

(***************************************************************************)
(* C33: every entry of the working set is a PatternMatch whose parent is a *)
(* top-level pattern, never null, and the final loop of apply() does not   *)
(* throw.                                                                  *)
(***************************************************************************)
C33_EntriesOwned ==
    /\ \A i \in DOMAIN matches :
          /\ matches[i] # null
          /\ heap[matches[i]].parent \in Range(patterns)
    /\ ~ (pc = "threw" /\ match_iter >= 1)

(***************************************************************************)
(* C34: a Sequence with fewer repeat bounds than children never throws in  *)
(* the middle of a traversal, when nodes it matched are already in the     *)
(* working set.                                                            *)
(***************************************************************************)
\* the Sequences with fewer repeat bounds than children
Underspecified == { p \in Sequences : Len(table[p].repeats) < Len(table[p].kids) }

C34_NoFailureMidTraversal ==
    ~ \E p \in Underspecified \cap Range(patterns) :
          /\ pc = "threw"
          /\ log # << >>
          /\ LogPattern(Len(log)) = p /\ log[Len(log)].resp = TypeError
          /\ state[p].match \in Range(matches)
          /\ heap[state[p].match].nodes # << >>

(***************************************************************************)
(* C35: whenever a top-level Sequence with at least one child and one      *)
(* repeat bound per child is about to be offered a node, its cursor is at  *)
(* one of its children and, if that child's maximum is positive, its       *)
(* repeat counter is below the maximum.                                    *)
(***************************************************************************)
C35_CursorInRange ==
    pc \in { "match", "again" } =>
        LET p == patterns[j] IN
        (/\ table[p].kind = "Sequence"
         /\ Len(table[p].kids) >= 1
         /\ Len(table[p].repeats) = Len(table[p].kids)) =>
            /\ 0 <= state[p].cur /\ state[p].cur < Len(table[p].kids)
            /\ MaxCount(p, state[p].cur) > 0 =>
                  state[p].cur_counts < MaxCount(p, state[p].cur)

\* a Sequence is offered a node after it went through all its children
C35_Witness ==
    /\ pc \in { "match", "again" }
    /\ table[patterns[j]].kind = "Sequence"
    /\ \E k \in DOMAIN log :
          /\ LogPattern(k) = patterns[j]
          /\ log[k].resp \in { Matching, Completed }

(***************************************************************************)
(* C36: the anchor depth and the applications-used counter of a child of a *)
(* Sequence persist: the counter is the number of nodes the child has      *)
(* matched in the traversal and the anchor is set once it has matched one. *)
(* Whenever a top-level Sequence is about to be offered a node and the     *)
(* child at its cursor has the depth window 0 and has matched a node at a  *)
(* smaller depth before, the Sequence answers Unapplied and no accumulator *)
(* changes.                                                                *)
(***************************************************************************)
\* the matches() calls made so far in which object c answered Matching
MatchedIn(c) == { k \in DOMAIN log : c \in log[k].counted }

C36_ChildAnchorsPersist ==
    /\ \A p \in Sequences \cap Range(patterns) :
          \A i \in DOMAIN table[p].kids :
              /\ state[Kid(p, i)]._applied = Cardinality(MatchedIn(Kid(p, i)))
              /\ MatchedIn(Kid(p, i)) # {} => state[Kid(p, i)]._cur_depth >= 0
    /\ pc \in { "match", "again" } =>
          LET p == patterns[j] IN
          (table[p].kind = "Sequence" /\ state[p].cur < Len(table[p].kids)) =>
              LET c == ChildAt(p, state[p].cur) IN
              (/\ table[c].depth = DefaultDepth
               /\ \E k \in MatchedIn(c) : log[k].depth < Depth(node)) =>
                  \E R \in { Pattern_matches(p, node, Depth(node), Graph) } :
                      R.resp = Unapplied /\ R.heap = heap

(***************************************************************************)
(* C37: whenever a node is about to be offered, an Ignored pattern answers *)
(* Unapplied if one of its own preconditions trips; if none does and the   *)
(* wrapped pattern is a field pattern whose applications are not used up,  *)
(* it answers Break if the node satisfies the wrapped pattern and          *)
(* NonMatching if not, whatever the node's depth and the wrapped pattern's *)
(* absolute-depth ceiling and depth window are.                            *)
(***************************************************************************)
\* the applications of pattern w are used up
UsedUp(w) == table[w].applications >= 0 /\ table[w].applications <= state[w]._applied

C37_IgnoredWithoutDepth ==
    pc \in { "match", "again" } =>
        \A p \in Ignoreds \cap (patterns[j]..LastObject(patterns[j])) :
            LET w == Kid(p, 1)
                d == Depth(node)
            IN
            \E R \in { Pattern_matches(p, node, d, Graph).resp } :
                IF ShortCircuits(table[p], state[p], d)
                THEN R = Unapplied
                ELSE (IsField(w) /\ ~ UsedUp(w)) =>
                        R = IF Answer(w, node) = Matching THEN Break ELSE NonMatching

\* a pre at depth 1 or more was answered Break by an Ignored pattern whose
\* wrapped pattern has the absolute-depth ceiling 0
C37_Witness ==
    \E k \in DOMAIN log :
        /\ table[LogPattern(k)].kind = "Ignored"
        /\ table[Kid(LogPattern(k), 1)].absolute_depth = 0
        /\ log[k].depth >= 1
        /\ log[k].resp = Break

(***************************************************************************)
(* C38: after every offer of a node to a top-level Field, Sequence or All  *)
(* pattern, the node occurs at most once in all the accumulators the       *)
(* pattern has had, taken together; if the offer was the one made again    *)
(* after Completed, the node is not in the accumulator that was completed. *)
(***************************************************************************)
\* the accumulators pattern p has had so far
AccumulatorsOf(p) == { m \in DOMAIN heap : heap[m].parent = p }

\* the places node n occurs at in the accumulators of pattern p
Occurrences(p, n) ==
    { << m, i >> \in AccumulatorsOf(p) \X (1..Len(root.tagName)) :
        i <= Len(heap[m].nodes) /\ heap[m].nodes[i] = n }

C38_AppendedOnce ==
    \A k \in DOMAIN log \cap { Len(log) } :
        table[LogPattern(k)].kind \in { "Simple", "Sequence", "All" } =>
            /\ Cardinality(Occurrences(LogPattern(k), log[k].node)) <= 1
            /\ log[k].again =>
                  \A i \in DOMAIN heap[log[k - 1].match].nodes :
                      heap[log[k - 1].match].nodes[i] # log[k].node

\* the working set holds a completed accumulator of a Sequence and the one it
\* began with the node that completed the first
C38_Witness ==
    \E k \in DOMAIN log :
        /\ log[k].again /\ log[k].resp = Incomplete
        /\ log[k - 1].match \in Range(matches) /\ log[k].match \in Range(matches)
        /\ heap[log[k].match].nodes[1] = log[k].node
        /\ heap[log[k - 1].match].nodes # << >>

(***************************************************************************)
(* C39: every accumulator apply() hands to a transform holds at least one  *)
(* node.                                                                   *)
(***************************************************************************)
C39_TransformsNonEmpty ==
    \A i \in DOMAIN transformed :
        getNodeList(heap[transformed[i].match].nodes) # << >>

====
